---------------------------- MODULE Spec2Model ----------------------------
(***************************************************************************)
(* ClusteredKNN (src/Methods/Vectorized_Clustered_KNN.py): per-user        *)
(* recommendations from content embeddings and a rating log.               *)
(*                                                                         *)
(* Embeddings are 2-dimensional integer vectors.  A cosine similarity      *)
(* x / sqrt(m) is kept exactly as the reduced fraction sgn(x)*x^2 / m,     *)
(* which orders and compares as the similarity itself does in exact        *)
(* arithmetic.  A mean vector is kept as the sum of its members: the       *)
(* cosine is unchanged by a positive scale.                                *)
(*                                                                         *)
(* The libraries the code calls are functions of their inputs: HDBSCAN is  *)
(* one of the labellings of Clusterers, and the order numpy / sklearn give *)
(* to equal keys is one of TieOrders; both are fixed by Init for a run.    *)
(***************************************************************************)
EXTENDS Integers, Sequences, FiniteSets, TLC

VARIABLES
    content_df,            \* catalog rows [id, vec], in catalog order
    interactions_df,       \* rating log rows <<user_id, content_id, rating>>
    batch_size,            \* generate_user_profiles(batch_size)
    clusterer,             \* which labelling HDBSCAN.fit_predict computes
    ties,                  \* how argsort / kneighbors order equal keys
    pc,                    \* position inside get_recommendations
    run,                   \* number of get_recommendations calls started
    all_vectors,           \* self.all_vectors
    user_ids,              \* generate_user_profiles: users not yet batched
    user_profiles,         \* self.user_profiles, a dict in insertion order
    cosine_scores,         \* self.cosine_scores, user_id -> score per row
    cosine_top_indices,    \* generate_recommendations: users still to rank
    all_recommendations,   \* generate_recommendations: rows so far
    recommendations_df,    \* self.recommendations_df
    returned,              \* the tables get_recommendations has returned
    processed,             \* user_id -> times its profile was built this run
    trace,                 \* user_id -> the lists of its last ranking
    alloc                  \* slot allocation on its own (SpecAlloc)

vars == <<content_df, interactions_df, batch_size, clusterer, ties, pc, run,
          all_vectors, user_ids, user_profiles, cosine_scores,
          cosine_top_indices, all_recommendations, recommendations_df,
          returned, processed, trace, alloc>>

---------------------------------------------------------------------------
(* Bounds.  The source fixes total_recommendations = 50, the few-interest  *)
(* limit 5 and a fallback pool of 2000; the model runs them scaled down so *)
(* that a catalog of four to six items reaches the cap, the limit and the  *)
(* end of the pool.                                                        *)

total_recommendations == 2

few_interest_limit == 3

pool_size == 4

MaxBatchSize == 3

MaxRuns == 2

MaxAllocTotal == 10

MaxAllocItems == 10

---------------------------------------------------------------------------
(* Arithmetic helpers *)

Abs(x) == IF x < 0 THEN -x ELSE x

Max(a, b) == IF a >= b THEN a ELSE b

Min(a, b) == IF a <= b THEN a ELSE b

RECURSIVE GCD(_, _)
GCD(a, b) == IF b = 0 THEN a ELSE GCD(b, a % b)

Range(s) == {s[i] : i \in DOMAIN s}

Take(s, n) == SubSeq(s, 1, Min(n, Len(s)))

\* seq[::-1]
Reverse(s) == [i \in 1..Len(s) |-> s[Len(s) + 1 - i]]

\* boolean-mask / isin selection: the members of s that satisfy keep, in order
RECURSIVE SelectIdx(_, _)
SelectIdx(s, keepset) ==
    IF s = <<>> THEN <<>>
    ELSE IF Head(s) \in keepset THEN <<Head(s)>> \o SelectIdx(Tail(s), keepset)
         ELSE SelectIdx(Tail(s), keepset)

---------------------------------------------------------------------------
(* Vectors and cosine *)

Dot(a, b) == a[1] * b[1] + a[2] * b[2]

ZeroVec == <<0, 0>>

RECURSIVE VecSum(_)
VecSum(vs) ==
    IF vs = <<>> THEN ZeroVec
    ELSE LET r == VecSum(Tail(vs)) IN <<Head(vs)[1] + r[1], Head(vs)[2] + r[2]>>

\* sklearn cosine_similarity of two vectors; a zero vector is normalised by 1
\* and so has similarity 0 to everything.
cosine_similarity(v, a) ==
    LET x == Dot(v, a)
        m == Dot(v, v) * Dot(a, a)
    IN  IF m = 0 \/ x = 0 THEN <<0, 1>>
        ELSE LET g == GCD(x * x, m)
             IN  <<(IF x < 0 THEN -1 ELSE 1) * ((x * x) \div g), m \div g>>

ScoreLess(s, t) == s[1] * t[2] < t[1] * s[2]


---------------------------------------------------------------------------
(* Library functions *)

TieOrders == {"low_first", "high_first"}

TieBefore(t, i, j) == IF t = "low_first" THEN i < j ELSE i > j

\* The members of S as a sequence, i before j whenever <<i, j>> is in
\* before, a strict total order on S given as its set of pairs.
OrderBy(S, before) ==
    [k \in 1..Cardinality(S) |->
        CHOOSE i \in S : Cardinality({j \in S : <<j, i>> \in before}) = k - 1]

\* np.argsort(scores): row positions by ascending score
argsort(scores, t) ==
    LET Before(i, j) == \/ ScoreLess(scores[i], scores[j])
                        \/ scores[i] = scores[j] /\ TieBefore(t, i, j)
    IN  OrderBy(DOMAIN scores,
                    {p \in (DOMAIN scores) \X (DOMAIN scores) : Before(p[1], p[2])})

\* NearestNeighbors(n_neighbors, metric='cosine').fit(vectors).kneighbors([q]):
\* the n_neighbors rows of smallest cosine distance, nearest first, each with
\* its similarity 1 - distance.
kneighbors(vectors, q, n_neighbors, t) ==
    LET sim == [i \in DOMAIN vectors |-> cosine_similarity(q, vectors[i])]
        Before(i, j) == \/ ScoreLess(sim[j], sim[i])
                        \/ sim[i] = sim[j] /\ TieBefore(t, i, j)
        order == OrderBy(DOMAIN vectors,
                    {p \in (DOMAIN vectors) \X (DOMAIN vectors) : Before(p[1], p[2])})
    IN  [k \in 1..Min(n_neighbors, Len(vectors)) |->
            [idx |-> order[k], score |-> sim[order[k]]]]

Clusterers == {"noise", "single", "direction"}

\* HDBSCAN(...).fit_predict(cosine_distances(vectors)): one label per vector,
\* -1 for noise.  "direction" puts vectors at cosine distance 0 together and
\* numbers the clusters in order of first appearance; "interleaved" deals
\* the vectors to two clusters in turn, so that the clusters lie across
\* each other.
fit_predict(scheme, vectors) ==
    LET n == Len(vectors)
        SameDir(i, j) == cosine_similarity(vectors[i], vectors[j]) = <<1, 1>>
        First(i) == CHOOSE j \in 1..i :
                        /\ SameDir(j, i) \/ j = i
                        /\ \A k \in 1..(j - 1) : ~SameDir(k, i)
    IN  [i \in 1..n |->
            CASE scheme = "noise" -> -1
              [] scheme = "single" -> 0
              [] scheme = "interleaved" -> (i - 1) % 2
              [] OTHER -> Cardinality({j \in 1..(First(i) - 1) : First(j) = j})]

\* pd.Series(labels).value_counts(normalize=True): the labels present, most
\* frequent first (equal counts in order of first appearance), each with its
\* share count / n of all labels.
value_counts(labels) ==
    LET n == Len(labels)
        Count(c) == Cardinality({i \in 1..n : labels[i] = c})
        FirstAt(c) == CHOOSE i \in 1..n :
                          labels[i] = c /\ \A k \in 1..(i - 1) : labels[k] # c
        Before(c, d) == \/ Count(c) > Count(d)
                        \/ Count(c) = Count(d) /\ FirstAt(c) < FirstAt(d)
        order == OrderBy(Range(labels),
                    {p \in Range(labels) \X Range(labels) : Before(p[1], p[2])})
    IN  [k \in 1..Len(order) |->
            [cluster |-> order[k], count |-> Count(order[k]), n |-> n]]

\* Python's < on candidate tuples (user_id, content_id, score)
TupleLess(a, b) ==
    IF a.user_id # b.user_id THEN a.user_id < b.user_id
    ELSE IF a.content_id # b.content_id THEN a.content_id < b.content_id
    ELSE ScoreLess(a.score, b.score)

\* heapq._siftdown; positions are 0-based as in the source, heap[pos + 1]
RECURSIVE siftdown_loop(_, _, _, _)
siftdown_loop(heap, startpos, pos, newitem) ==
    IF pos > startpos
    THEN LET parentpos == (pos - 1) \div 2
             parent == heap[parentpos + 1]
         IN  IF TupleLess(newitem, parent)
             THEN siftdown_loop([heap EXCEPT ![pos + 1] = parent],
                                startpos, parentpos, newitem)
             ELSE [heap EXCEPT ![pos + 1] = newitem]
    ELSE [heap EXCEPT ![pos + 1] = newitem]

\* heapq._siftup
RECURSIVE siftup_loop(_, _, _, _)
siftup_loop(heap, startpos, pos, newitem) ==
    LET endpos == Len(heap)
        childpos == 2 * pos + 1
        rightpos == childpos + 1
    IN  IF childpos < endpos
        THEN LET c == IF /\ rightpos < endpos
                         /\ ~TupleLess(heap[childpos + 1], heap[rightpos + 1])
                      THEN rightpos ELSE childpos
             IN  siftup_loop([heap EXCEPT ![pos + 1] = heap[c + 1]],
                             startpos, c, newitem)
        ELSE siftdown_loop([heap EXCEPT ![pos + 1] = newitem],
                           startpos, pos, newitem)

\* heapq.heapify(x): for i in reversed(range(n // 2)): _siftup(x, i)
RECURSIVE heapify_from(_, _)
heapify_from(x, i) ==
    IF i < 0 THEN x
    ELSE heapify_from(siftup_loop(x, i, i, x[i + 1]), i - 1)

heapify(x) == heapify_from(x, (Len(x) \div 2) - 1)

\* a descending sort that is not stable: equal scores come out reversed
sorted_by_score_desc_unstable(xs) ==
    LET Before(i, j) == \/ ScoreLess(xs[j].score, xs[i].score)
                        \/ xs[i].score = xs[j].score /\ i > j
        order == OrderBy(DOMAIN xs,
                    {p \in (DOMAIN xs) \X (DOMAIN xs) : Before(p[1], p[2])})
    IN  [k \in 1..Len(xs) |-> xs[order[k]]]

\* sorted(xs, key=lambda x: x[2], reverse=True): by descending score, equal
\* scores in the order they have in xs
sorted_by_score_desc(xs) ==
    LET Before(i, j) == \/ ScoreLess(xs[j].score, xs[i].score)
                        \/ xs[i].score = xs[j].score /\ i < j
        order == OrderBy(DOMAIN xs,
                    {p \in (DOMAIN xs) \X (DOMAIN xs) : Before(p[1], p[2])})
    IN  [k \in 1..Len(xs) |-> xs[order[k]]]

\* nlargest that forgets to cut the list at n
nlargest_uncut(n, xs) == sorted_by_score_desc(xs)

\* heapq.nlargest(n, xs, key=lambda x: x[2]), documented as equivalent to
\* sorted(xs, key=key, reverse=True)[:n]
nlargest(n, xs) == Take(sorted_by_score_desc(xs), n)

\* int() where round() was meant: the fraction is cut off
round_truncating(a, b) == a \div b

\* Python round(): to the nearest integer, halves to the even one (a / b >= 0)
round(a, b) ==
    LET q == a \div b
        r == a % b
    IN  IF 2 * r < b THEN q
        ELSE IF 2 * r > b THEN q + 1
        ELSE IF q % 2 = 0 THEN q ELSE q + 1

---------------------------------------------------------------------------
(* generate_user_profiles *)

\* pandas unique(): the distinct members in order of first appearance
RECURSIVE unique(_)
unique(s) ==
    IF s = <<>> THEN <<>>
    ELSE LET r == unique(SubSeq(s, 1, Len(s) - 1))
             x == s[Len(s)]
         IN  IF x \in Range(r) THEN r ELSE Append(r, x)

\* the members of a set of integers in ascending order (groupby sorts keys)
ascending(S) == OrderBy(S, {p \in S \X S : p[1] < p[2]})

RowUser(r) == r[1]

RowContent(r) == r[2]

RowRating(r) == r[3]

RECURSIVE SelectRows(_, _)
SelectRows(rows, users) ==
    IF rows = <<>> THEN <<>>
    ELSE IF RowUser(Head(rows)) \in users
         THEN <<Head(rows)>> \o SelectRows(Tail(rows), users)
         ELSE SelectRows(Tail(rows), users)

\* df[df[content_id_column].isin(ids)]: catalog positions whose id is in ids
content_isin(positions, ids) ==
    SelectIdx(positions,
              {i \in Range(positions) : content_df[i].id \in ids})

\* interactions[interactions['rating'].isin([4, 5])], its content ids
good_ids(interactions) ==
    {RowContent(r) : r \in {x \in Range(interactions) : RowRating(x) \in {4, 5}}}

\* a negative filter that takes the neutral rating too
negative_ids_with_neutral(interactions) ==
    {RowContent(r) : r \in {x \in Range(interactions) :
                               RowRating(x) \in {1, 2, 3}}}

\* interactions[interactions['rating'].isin([1, 2])], its content ids
negative_ids(interactions) ==
    {RowContent(r) : r \in {x \in Range(interactions) : RowRating(x) \in {1, 2}}}

\* previous_interactions of one user (source lines 199-201)
previous_interactions(interactions) ==
    good_ids(interactions) \cup negative_ids(interactions)

\* batch_content of one chunk (source lines 150-155)
batch_content_of(batch_interactions) ==
    content_isin([i \in 1..Len(content_df) |-> i],
                 {RowContent(r) : r \in Range(batch_interactions)})

\* a loop body that takes the whole chunk for the user's own rows
build_profile_ungrouped(user_id, batch_interactions, batch_content) ==
    LET interactions == batch_interactions
        good_content == content_isin(batch_content, good_ids(interactions))
        good_vectors == [k \in 1..Len(good_content) |->
                            content_df[good_content[k]].vec]
        positive_vector == IF good_vectors # <<>> THEN VecSum(good_vectors)
                           ELSE ZeroVec
        user_vector == positive_vector
        user_clusters ==
            IF Len(good_content) < few_interest_limit
            THEN [k \in 1..Len(good_content) |-> k - 1]
            ELSE fit_predict(clusterer, good_vectors)
    IN  [profile |-> [user_id |-> user_id,
                      content |-> good_content,
                      clusters |-> user_clusters,
                      previous_interactions |->
                          previous_interactions(interactions)],
         scores |-> [i \in 1..Len(all_vectors) |->
                        cosine_similarity(user_vector, all_vectors[i])]]

\* the body of the groupby loop for one user: its profile and its scores
build_profile(user_id, batch_interactions, batch_content) ==
    LET interactions == SelectRows(batch_interactions, {user_id})
        good_content == content_isin(batch_content, good_ids(interactions))
        good_vectors == [k \in 1..Len(good_content) |->
                            content_df[good_content[k]].vec]
        positive_vector == IF good_vectors # <<>> THEN VecSum(good_vectors)
                           ELSE ZeroVec
        user_vector == positive_vector
        user_clusters ==
            IF Len(good_content) < few_interest_limit
            THEN [k \in 1..Len(good_content) |-> k - 1]
            ELSE fit_predict(clusterer, good_vectors)
    IN  [profile |-> [user_id |-> user_id,
                      content |-> good_content,
                      clusters |-> user_clusters,
                      previous_interactions |->
                          previous_interactions(interactions)],
         scores |-> [i \in 1..Len(all_vectors) |->
                        cosine_similarity(user_vector, all_vectors[i])]]

\* d[key] = value on a dict kept in insertion order
dict_set(d, value) ==
    IF \E k \in DOMAIN d : d[k].user_id = value.user_id
    THEN [k \in DOMAIN d |->
             IF d[k].user_id = value.user_id THEN value ELSE d[k]]
    ELSE Append(d, value)

dict_get(d, user_id) == d[CHOOSE k \in DOMAIN d : d[k].user_id = user_id]

\* a slice that starts one user too far
rest_of_users_skipping(ids, current_batch_size) ==
    SubSeq(ids, current_batch_size + 2, Len(ids))

\* user_ids = user_ids[current_batch_size:]
rest_of_users(ids, current_batch_size) ==
    SubSeq(ids, current_batch_size + 1, Len(ids))

\* the groupby loop over one chunk, users in ascending id order
RECURSIVE batch_loop(_, _, _, _)
batch_loop(state, users, batch_interactions, batch_content) ==
    IF users = <<>> THEN state
    ELSE LET b == build_profile(Head(users), batch_interactions, batch_content)
             u == Head(users)
             next ==
                 [profiles |-> dict_set(state.profiles, b.profile),
                  scores |-> [x \in DOMAIN state.scores \cup {u} |->
                                 IF x = u THEN b.scores ELSE state.scores[x]],
                  processed |-> [x \in DOMAIN state.processed \cup {u} |->
                                    IF x \in DOMAIN state.processed
                                    THEN state.processed[x]
                                             + (IF x = u THEN 1 ELSE 0)
                                    ELSE 1]]
         IN  batch_loop(next, Tail(users), batch_interactions, batch_content)

---------------------------------------------------------------------------
(* generate_recommendations *)

\* np.argsort(self.cosine_scores[user_id])[::-1][:2000]
top_indices_of(scores) == Take(Reverse(argsort(scores, ties)), pool_size)

\* an exclusion set that also reads the table left by the previous call
user_previous_interactions_and_table(profile) ==
    profile.previous_interactions
        \cup {recommendations_df[k].content_id :
                 k \in {x \in DOMAIN recommendations_df :
                           recommendations_df[x].user_id = profile.user_id}}

\* user_previous_interactions = set(profile['previous_interactions'])
user_previous_interactions(profile) == profile.previous_interactions

\* one candidate tuple (user_id, content_id, score); via, cluster and ord
\* record where and when it was appended and take no part in comparisons
Candidate(cands, user_id, content_id, score, via, cluster) ==
    [user_id |-> user_id, content_id |-> content_id, score |-> score,
     via |-> via, cluster |-> cluster, ord |-> Len(cands) + 1]

\* a pool loop that lost its exclusion test
pool_admits_everything(content_id, prev) == TRUE

\* whether the pool loops append row idx (source lines 62 and 98)
pool_admits(content_id, prev) == content_id \notin prev

\* the loop "for idx in top_indices" of lines 58-64 and of lines 94-100
RECURSIVE pool_walk(_, _, _, _, _, _, _)
pool_walk(cands, top_indices, k, user_id, prev, scores, via) ==
    IF k > Len(top_indices) THEN cands
    ELSE IF Len(cands) >= total_recommendations THEN cands
    ELSE LET idx == top_indices[k]
             content_id == content_df[idx].id
         IN  IF pool_admits(content_id, prev)
             THEN pool_walk(
                      Append(cands,
                             Candidate(cands, user_id, content_id,
                                       scores[idx], via, -1)),
                      top_indices, k + 1, user_id, prev, scores, via)
             ELSE pool_walk(cands, top_indices, k + 1, user_id, prev, scores,
                            via)

\* lines 58-64: users with few interactions, as a single cluster
few_interest_walk(top_indices, user_id, prev, scores) ==
    pool_walk(<<>>, top_indices, 1, user_id, prev, scores, "few")

\* lines 94-100: supplement recommendations if not enough
supplement(cands, top_indices, user_id, prev, scores) ==
    pool_walk(cands, top_indices, 1, user_id, prev, scores, "supplement")

\* max(1, int(round(total * proportion))), proportion = count / n
cluster_recommendation_count(total, count, n) ==
    Max(1, round(total * count, n))

\* min(cluster_recommendation_count, len(self.all_vectors))
n_neighbors_of(count, catalog_size) == Min(count, catalog_size)

\* whether the cluster loop goes on to query for this label (lines 68-69)
is_queried(cluster) == cluster # -1

\* the clusters the loop of lines 67-82 queries, in its order, with the slot
\* count and the neighbor count of each
cluster_plan(total, labels, catalog_size) ==
    LET counts == SelectSeq(value_counts(labels),
                            LAMBDA e : is_queried(e.cluster))
    IN  [k \in 1..Len(counts) |->
            LET slots == cluster_recommendation_count(
                             total, counts[k].count, counts[k].n)
            IN  [cluster |-> counts[k].cluster,
                 count |-> counts[k].count,
                 n |-> counts[k].n,
                 slots |-> slots,
                 n_neighbors |-> n_neighbors_of(slots, catalog_size)]]

\* a neighbor loop that passes over ids the candidate list already holds
RECURSIVE append_neighbors_dedup(_, _, _, _, _, _)
append_neighbors_dedup(cands, neighbors, j, user_id, prev, cluster) ==
    IF j > Len(neighbors) THEN cands
    ELSE LET content_id == content_df[neighbors[j].idx].id
         IN  IF /\ content_id \notin prev
                /\ \A k \in DOMAIN cands : cands[k].content_id # content_id
             THEN LET appended ==
                          Append(cands,
                                 Candidate(cands, user_id, content_id,
                                           neighbors[j].score, "cluster",
                                           cluster))
                  IN  IF Len(appended) >= total_recommendations
                      THEN appended
                      ELSE append_neighbors_dedup(appended, neighbors, j + 1,
                                                  user_id, prev, cluster)
             ELSE append_neighbors_dedup(cands, neighbors, j + 1, user_id,
                                         prev, cluster)

\* lines 85-91: the neighbors of one cluster, nearest first
RECURSIVE append_neighbors(_, _, _, _, _, _)
append_neighbors(cands, neighbors, j, user_id, prev, cluster) ==
    IF j > Len(neighbors) THEN cands
    ELSE LET content_id == content_df[neighbors[j].idx].id
         IN  IF content_id \notin prev
             THEN LET appended ==
                          Append(cands,
                                 Candidate(cands, user_id, content_id,
                                           neighbors[j].score, "cluster",
                                           cluster))
                  IN  IF Len(appended) >= total_recommendations
                      THEN appended
                      ELSE append_neighbors(appended, neighbors, j + 1,
                                            user_id, prev, cluster)
             ELSE append_neighbors(cands, neighbors, j + 1, user_id, prev,
                                   cluster)

\* lines 67-91: every queried cluster in turn
RECURSIVE cluster_loop(_, _, _, _, _)
cluster_loop(cands, plan, k, profile, prev) ==
    IF k > Len(plan) THEN cands
    ELSE LET members == {j \in DOMAIN profile.content :
                            profile.clusters[j] = plan[k].cluster}
             member_vectors ==
                 LET pos == SelectIdx([j \in DOMAIN profile.content |-> j],
                                      members)
                 IN  [m \in 1..Len(pos) |->
                         content_df[profile.content[pos[m]]].vec]
             cluster_vector == VecSum(member_vectors)
             neighbors == kneighbors(all_vectors, cluster_vector,
                                     plan[k].n_neighbors, ties)
         IN  cluster_loop(
                 append_neighbors(cands, neighbors, 1, profile.user_id, prev,
                                  plan[k].cluster),
                 plan, k + 1, profile, prev)

\* line 56: len(user_content[content_id_column].unique()) < 5
is_few_interest(profile) ==
    Cardinality({content_df[i].id : i \in Range(profile.content)})
        < few_interest_limit

\* lines 102-108: heapify, top N by score, ranks from 1
rank_rows(top) ==
    [k \in 1..Len(top) |->
        [user_id |-> top[k].user_id, content_id |-> top[k].content_id,
         recommendation_rank |-> k]]

\* the body of the loop of line 50 for one user, given its profile
\* (self.user_profiles[user_id]) and scores (self.cosine_scores[user_id])
recommend_user(profile, scores, top_indices) ==
    LET user_id == profile.user_id
        prev == user_previous_interactions(profile)
        few == is_few_interest(profile)
        plan == IF few THEN <<>>
                ELSE cluster_plan(total_recommendations, profile.clusters,
                                  Len(all_vectors))
        from_path == IF few
                     THEN few_interest_walk(top_indices, user_id, prev,
                                            scores)
                     ELSE cluster_loop(<<>>, plan, 1, profile, prev)
        user_recommendations ==
            supplement(from_path, top_indices, user_id, prev, scores)
        heap == heapify(user_recommendations)
        top_recommendations == nlargest(total_recommendations, heap)
        ordered == sorted_by_score_desc(top_recommendations)
    IN  [few |-> few, plan |-> plan, top_indices |-> top_indices,
         from_path |-> from_path,
         user_recommendations |-> user_recommendations,
         heap |-> heap, ordered |-> ordered,
         ranked_recommendations |-> rank_rows(ordered)]

\* lines 112-125: the output table
recommendations_table(rows) ==
    [k \in 1..Len(rows) |->
        [user_id |-> rows[k].user_id, content_id |-> rows[k].content_id,
         recommendation_rank |-> rows[k].recommendation_rank,
         module_source |-> "content_based"]]

---------------------------------------------------------------------------
(* Inputs *)

\* the catalog of Example A
CatalogA ==
    << [id |-> 101, vec |-> <<1, 0>>], [id |-> 102, vec |-> <<0, 1>>],
       [id |-> 103, vec |-> <<1, 1>>], [id |-> 104, vec |-> <<-1, 0>> ] >>

\* three directions, each held by two items; ids do not follow row order
CatalogB ==
    << [id |-> 206, vec |-> <<1, 0>>], [id |-> 205, vec |-> <<0, 1>>],
       [id |-> 204, vec |-> <<1, 1>>], [id |-> 203, vec |-> <<2, 0>>],
       [id |-> 202, vec |-> <<0, 2>>], [id |-> 201, vec |-> <<2, 2>> ] >>

\* the log of one user who gave row i of the catalog the rating f[i] (0: none)
RECURSIVE RatedRows(_, _, _, _)
RatedRows(catalog, user_id, f, i) ==
    IF i > Len(catalog) THEN <<>>
    ELSE (IF f[i] = 0 THEN <<>> ELSE << <<user_id, catalog[i].id, f[i]>> >>)
             \o RatedRows(catalog, user_id, f, i + 1)

\* short logs of one user over CatalogA: Example A, a single good item, a
\* neutral and a negative item with an id the catalog lacks, an item rated
\* twice, every item of the catalog rated good or bad, and no row at all
LightLogs(u) ==
    { << <<u, 101, 5>>, <<u, 102, 5>>, <<u, 103, 1>> >>,
      << <<u, 103, 4>> >>,
      << <<u, 104, 3>>, <<u, 101, 2>>, <<u, 999, 4>> >>,
      << <<u, 102, 3>>, <<u, 102, 5>> >>,
      << <<u, 101, 5>>, <<u, 102, 4>>, <<u, 103, 4>>, <<u, 104, 1>> >>,
      << >> }

UserOrders ==
    { <<1, 2, 3>>, <<1, 3, 2>>, <<2, 1, 3>>, <<2, 3, 1>>, <<3, 1, 2>>,
      <<3, 2, 1>> }

Idle ==
    /\ pc = "INIT"
    /\ run = 0
    /\ all_vectors = <<>>
    /\ user_ids = <<>>
    /\ user_profiles = <<>>
    /\ cosine_scores = <<>>
    /\ cosine_top_indices = <<>>
    /\ all_recommendations = <<>>
    /\ recommendations_df = <<>>
    /\ returned = <<>>
    /\ processed = <<>>
    /\ trace = <<>>

NoAlloc == [pc |-> "unused"]

\* one user over the catalog of Example A, any rating on any item
InitOneUserA ==
    /\ content_df = CatalogA
    /\ \E f \in [1..Len(CatalogA) -> 0..5] :
           interactions_df = RatedRows(CatalogA, 1, f, 1)
    /\ batch_size = MaxBatchSize
    /\ clusterer \in Clusterers
    /\ ties \in TieOrders

\* one user over the larger catalog, enough good items for clusters
InitOneUserB ==
    /\ content_df = CatalogB
    /\ \E f \in [1..Len(CatalogB) -> {0, 2, 4}] :
           interactions_df = RatedRows(CatalogB, 1, f, 1)
    /\ batch_size = MaxBatchSize
    /\ clusterer \in Clusterers
    /\ ties \in TieOrders

\* one user over the larger catalog whose good items fall into two clusters
\* that lie across each other
InitInterleaved ==
    /\ content_df = CatalogB
    /\ \E f \in [1..Len(CatalogB) -> {0, 4}] :
           interactions_df = RatedRows(CatalogB, 1, f, 1)
    /\ batch_size = MaxBatchSize
    /\ clusterer = "interleaved"
    /\ ties \in TieOrders

\* up to three users in any order of first appearance, any batch size
InitUsers ==
    /\ content_df = CatalogA
    /\ \E order \in UserOrders :
       \E l1 \in LightLogs(order[1]), l2 \in LightLogs(order[2]),
          l3 \in LightLogs(order[3]) :
           interactions_df = l1 \o l2 \o l3
    /\ batch_size \in 1..MaxBatchSize
    /\ clusterer = "direction"
    /\ ties = "low_first"

Init ==
    /\ InitOneUserA \/ InitOneUserB \/ InitInterleaved \/ InitUsers
    /\ Idle
    /\ alloc = NoAlloc

---------------------------------------------------------------------------
(* get_recommendations *)

\* lines 26 and 138-139: stack the catalog vectors, list the users
GetRecommendations ==
    /\ pc = "INIT" \/ (pc = "DONE" /\ run < MaxRuns)
    /\ run' = run + 1
    /\ all_vectors' = [i \in 1..Len(content_df) |-> content_df[i].vec]
    /\ user_ids' = unique([k \in 1..Len(interactions_df) |->
                              RowUser(interactions_df[k])])
    /\ processed' = <<>>
    /\ pc' = "PROFILES"
    /\ UNCHANGED <<content_df, interactions_df, batch_size, clusterer, ties,
                   user_profiles, cosine_scores, cosine_top_indices,
                   all_recommendations, recommendations_df, returned, trace,
                   alloc>>

\* lines 142-208: one pass of the while loop, a whole batch of users
ProcessBatch ==
    /\ pc = "PROFILES"
    /\ Len(user_ids) > 0
    /\ LET current_batch_size == Min(batch_size, Len(user_ids))
           user_id_chunk == Take(user_ids, current_batch_size)
           batch_interactions ==
               SelectRows(interactions_df, Range(user_id_chunk))
           batch_content == batch_content_of(batch_interactions)
           groups == ascending({RowUser(r) : r \in Range(batch_interactions)})
           done == batch_loop([profiles |-> user_profiles,
                               scores |-> cosine_scores,
                               processed |-> processed],
                              groups, batch_interactions, batch_content)
       IN  /\ user_ids' = rest_of_users(user_ids, current_batch_size)
           /\ user_profiles' = done.profiles
           /\ cosine_scores' = done.scores
           /\ processed' = done.processed
    /\ UNCHANGED <<content_df, interactions_df, batch_size, clusterer, ties,
                   pc, run, all_vectors, cosine_top_indices,
                   all_recommendations, recommendations_df, returned, trace,
                   alloc>>

\* lines 43-48: the while loop is over; start generate_recommendations
BeginRecommendations ==
    /\ pc = "PROFILES"
    /\ Len(user_ids) = 0
    /\ all_recommendations' = <<>>
    /\ cosine_top_indices' =
           [k \in DOMAIN user_profiles |->
               [user_id |-> user_profiles[k].user_id,
                top_indices |->
                    top_indices_of(cosine_scores[user_profiles[k].user_id])]]
    /\ pc' = "PROFILES_BUILT"
    /\ UNCHANGED <<content_df, interactions_df, batch_size, clusterer, ties,
                   run, all_vectors, user_ids, user_profiles, cosine_scores,
                   recommendations_df, returned, processed, trace, alloc>>

\* lines 50-109: one pass of the loop over users
GenerateForUser ==
    /\ pc = "PROFILES_BUILT"
    /\ Len(cosine_top_indices) > 0
    /\ LET user_id == Head(cosine_top_indices).user_id
           r == recommend_user(dict_get(user_profiles, user_id),
                               cosine_scores[user_id],
                               Head(cosine_top_indices).top_indices)
       IN  /\ all_recommendations' =
                  all_recommendations \o r.ranked_recommendations
           /\ trace' = [u \in DOMAIN trace \cup {user_id} |->
                           IF u = user_id THEN r ELSE trace[u]]
    /\ cosine_top_indices' = Tail(cosine_top_indices)
    /\ UNCHANGED <<content_df, interactions_df, batch_size, clusterer, ties,
                   pc, run, all_vectors, user_ids, user_profiles,
                   cosine_scores, recommendations_df, returned, processed,
                   alloc>>

\* a table built while users are still waiting to be ranked
BuildTableEarly ==
    /\ pc = "PROFILES_BUILT"
    /\ recommendations_df' = recommendations_table(all_recommendations)
    /\ pc' = "RECOMMENDATIONS_GENERATED"
    /\ UNCHANGED <<content_df, interactions_df, batch_size, clusterer, ties,
                   run, all_vectors, user_ids, user_profiles, cosine_scores,
                   cosine_top_indices, all_recommendations, returned,
                   processed, trace, alloc>>

\* lines 112-125: the loop is over; build the table
BuildTable ==
    /\ pc = "PROFILES_BUILT"
    /\ Len(cosine_top_indices) = 0
    /\ recommendations_df' = recommendations_table(all_recommendations)
    /\ pc' = "RECOMMENDATIONS_GENERATED"
    /\ UNCHANGED <<content_df, interactions_df, batch_size, clusterer, ties,
                   run, all_vectors, user_ids, user_profiles, cosine_scores,
                   cosine_top_indices, all_recommendations, returned,
                   processed, trace, alloc>>

\* line 34: return self.recommendations_df
Return ==
    /\ pc = "RECOMMENDATIONS_GENERATED"
    /\ returned' = Append(returned, recommendations_df)
    /\ pc' = "DONE"
    /\ UNCHANGED <<content_df, interactions_df, batch_size, clusterer, ties,
                   run, all_vectors, user_ids, user_profiles, cosine_scores,
                   cosine_top_indices, all_recommendations,
                   recommendations_df, processed, trace, alloc>>

Next ==
    \/ GetRecommendations
    \/ ProcessBatch
    \/ BeginRecommendations
    \/ GenerateForUser
    \/ BuildTable
    \/ Return

Spec == Init /\ [][Next]_vars

---------------------------------------------------------------------------
(* Slot allocation on its own: any total, any mix of two clusters and      *)
(* noise, any catalog size.                                                *)

AllocLabels(c0, c1, noise) ==
    [i \in 1..(noise + c1 + c0) |->
        IF i <= noise THEN -1 ELSE IF i <= noise + c1 THEN 1 ELSE 0]

InitAlloc ==
    /\ content_df = CatalogA
    /\ interactions_df = <<>>
    /\ batch_size = MaxBatchSize
    /\ clusterer = "noise"
    /\ ties = "low_first"
    /\ Idle
    /\ \E total \in 1..MaxAllocTotal, catalog_size \in 1..MaxAllocItems,
          c0 \in 0..MaxAllocItems, c1 \in 0..MaxAllocItems,
          noise \in 0..MaxAllocItems :
           /\ c0 + c1 + noise \in 1..MaxAllocItems
           /\ alloc = [pc |-> "ready", total |-> total,
                       labels |-> AllocLabels(c0, c1, noise),
                       catalog_size |-> catalog_size, plan |-> <<>>]

\* lines 66-77 for one user's labels
Allocate ==
    /\ alloc.pc = "ready"
    /\ alloc' = [alloc EXCEPT
                    !.pc = "done",
                    !.plan = cluster_plan(alloc.total, alloc.labels,
                                          alloc.catalog_size)]
    /\ UNCHANGED <<content_df, interactions_df, batch_size, clusterer, ties,
                   pc, run, all_vectors, user_ids, user_profiles,
                   cosine_scores, cosine_top_indices, all_recommendations,
                   recommendations_df, returned, processed, trace>>

NextAlloc == Allocate

SpecAlloc == InitAlloc /\ [][NextAlloc]_vars

---------------------------------------------------------------------------
(* Properties *)

LogUsers == {RowUser(r) : r \in Range(interactions_df)}

\* the content ids user u rated with a rating in R, read off the log
RatedIn(u, R) ==
    {RowContent(r) : r \in {x \in Range(interactions_df) :
                               RowUser(x) = u /\ RowRating(x) \in R}}

\* the rows of a table that belong to user u, in table order
RowsOf(table, u) == SelectSeq(table, LAMBDA r : r.user_id = u)

ContentIds(rows) == [k \in DOMAIN rows |-> rows[k].content_id]

TableUsers(table) == {table[k].user_id : k \in DOMAIN table}

\* C1: in the output table every user has at most total_recommendations
\* rows, and the ranks of the user's rows are exactly 1..count, none repeated
\* and none skipped.
C1_CountAndRanks ==
    \A u \in TableUsers(recommendations_df) :
        LET rows == RowsOf(recommendations_df, u)
            ranks == {rows[k].recommendation_rank : k \in DOMAIN rows}
        IN  /\ Len(rows) <= total_recommendations
            /\ ranks = 1..Len(rows)
            /\ \A i, j \in DOMAIN rows :
                   rows[i].recommendation_rank = rows[j].recommendation_rank
                       => i = j

\* C1 witness: a finished run in which a user on the cluster path gathered
\* more candidates than the cap and was given exactly total_recommendations
\* rows
C1_Witness ==
    /\ pc = "DONE"
    /\ \E u \in DOMAIN trace :
           /\ ~trace[u].few
           /\ Len(trace[u].user_recommendations) > total_recommendations
           /\ Len(RowsOf(recommendations_df, u)) = total_recommendations

\* C2: no row of the output table names a content id its user rated 4-5 or
\* 1-2.
C2_NoPreviousInteraction ==
    \A k \in DOMAIN recommendations_df :
        recommendations_df[k].content_id
            \notin RatedIn(recommendations_df[k].user_id, {1, 2, 4, 5})

\* C2 witness: a user with rated items whose output holds a candidate from a
\* cluster query and one from the supplement, with a seen item in the pool
C2_Witness ==
    /\ pc = "DONE"
    /\ \E u \in DOMAIN trace :
           /\ \E c \in Range(trace[u].ordered) : c.via = "cluster"
           /\ \E c \in Range(trace[u].ordered) : c.via = "supplement"
           /\ \E i \in Range(trace[u].top_indices) :
                  content_df[i].id \in RatedIn(u, {1, 2})
           /\ Len(RowsOf(recommendations_df, u)) = Len(trace[u].ordered)

\* the never-seen items of the fallback pool, best first
UnseenPool(u) ==
    LET ids == [k \in DOMAIN trace[u].top_indices |->
                   content_df[trace[u].top_indices[k]].id]
    IN  SelectSeq(ids, LAMBDA c : c \notin RatedIn(u, {1, 2, 4, 5}))

\* the catalog row that carries content id c
RowOfId(c) == CHOOSE i \in DOMAIN content_df : content_df[i].id = c

FewGoodItems(u) ==
    Cardinality(RatedIn(u, {4, 5}) \cap
                {content_df[i].id : i \in DOMAIN content_df})
        < few_interest_limit

ExampleALog == << <<1, 101, 5>>, <<1, 102, 5>>, <<1, 103, 1>> >>

\* C3: for a user with fewer than few_interest_limit distinct good items the
\* output is the never-seen items of the fallback pool, best similarity
\* first, truncated to total_recommendations, each item once: as many rows
\* as min(total_recommendations, unseen items in the pool), all of them
\* unseen pool items, no id twice, scores descending by rank, and no unseen
\* pool item left out that scores higher than a row; on Example A it is the
\* single row (104, rank 1).
C3_FewInterestOutput ==
    pc = "DONE" =>
        \A u \in DOMAIN trace :
            FewGoodItems(u) =>
                LET out == ContentIds(RowsOf(recommendations_df, u))
                    pool == UnseenPool(u)
                    score(c) == cosine_scores[u][RowOfId(c)]
                IN  /\ Len(out) = Min(total_recommendations, Len(pool))
                    /\ Range(out) \subseteq Range(pool)
                    /\ \A i, j \in DOMAIN out : out[i] = out[j] => i = j
                    /\ \A i, j \in DOMAIN out :
                           i < j => ~ScoreLess(score(out[i]), score(out[j]))
                    /\ \A c \in Range(pool) \ Range(out) :
                           \A i \in DOMAIN out :
                               ~ScoreLess(score(out[i]), score(c))
                    /\ (content_df = CatalogA /\ interactions_df = ExampleALog)
                           => out = <<104>>

\* C4: a second get_recommendations on the same object and the same inputs
\* returns, for every user, the same set of rows as the first.
C4_Idempotent ==
    Len(returned) >= 2 =>
        \A u \in TableUsers(returned[1]) \cup TableUsers(returned[2]) :
            Range(RowsOf(returned[1], u)) = Range(RowsOf(returned[2], u))

\* C4 witness: two calls have returned, the second over the profiles and
\* scores the first left behind; the tables hold rows of two users who have
\* seen different items
C4_Witness ==
    /\ Len(returned) = 2
    /\ Cardinality(TableUsers(returned[2])) >= 2
    /\ Cardinality({dict_get(user_profiles, u).previous_interactions :
                       u \in LogUsers}) >= 2

\* what the profile and scores of user u are when the whole log is one batch
WholeLogProfile(u) ==
    build_profile(u, interactions_df,
                  batch_content_of(interactions_df))

\* C5: whatever the batch size, once the batches are done every user of the
\* log has been processed exactly once and holds the profile and the scores
\* the whole log as one batch gives it, and the rows it is given are those
\* that profile yields.
C5_BatchSizeIrrelevant ==
    /\ (pc \notin {"INIT", "PROFILES"}) =>
           /\ DOMAIN processed = LogUsers
           /\ \A u \in LogUsers :
                  /\ processed[u] = 1
                  /\ dict_get(user_profiles, u) = WholeLogProfile(u).profile
                  /\ cosine_scores[u] = WholeLogProfile(u).scores
    /\ pc = "DONE" =>
           \A u \in LogUsers :
               RowsOf(recommendations_df, u)
                   = recommendations_table(
                         recommend_user(
                             WholeLogProfile(u).profile,
                             WholeLogProfile(u).scores,
                             top_indices_of(WholeLogProfile(u).scores)
                         ).ranked_recommendations)

\* C5 witness: three users, batches of two, each user with rows of its own
C5_Witness ==
    /\ pc = "DONE"
    /\ run = 1
    /\ batch_size = 2
    /\ Cardinality(LogUsers) = 3
    /\ \A u \in LogUsers : RowsOf(recommendations_df, u) # <<>>
    /\ \E u, v \in LogUsers :
           dict_get(user_profiles, u).content
               # dict_get(user_profiles, v).content

\* C6: on the cluster path the candidate list never grows beyond
\* total_recommendations: once it reaches the cap no cluster appends to it.
C6_ClusterPathCapped ==
    \A u \in DOMAIN trace :
        ~trace[u].few =>
            /\ Len(trace[u].from_path) <= total_recommendations
            /\ Len(trace[u].user_recommendations) <= total_recommendations

\* C7: the supplement appends a pool item only if its content id is neither
\* in previous_interactions nor already in the user's candidate list, and it
\* leaves the list short of the cap only when the pool has no such item left.
C7_SupplementExcludesPresent ==
    \A u \in DOMAIN trace :
        LET cands == trace[u].user_recommendations
            pool == {content_df[i].id : i \in Range(trace[u].top_indices)}
        IN  /\ \A k \in DOMAIN cands :
                   cands[k].via = "supplement" =>
                       /\ cands[k].content_id \notin RatedIn(u, {1, 2, 4, 5})
                       /\ \A j \in 1..(k - 1) :
                              cands[j].content_id # cands[k].content_id
            /\ Len(cands) < total_recommendations =>
                   \A c \in pool :
                       \/ c \in RatedIn(u, {1, 2, 4, 5})
                       \/ \E k \in DOMAIN cands : cands[k].content_id = c

\* C8: every cluster that is given slots is not noise, and every label but
\* noise is given slots exactly once; its slot count is at least 1 and
\* otherwise the integer nearest to total * count / n, n counting the noise
\* items too; the neighbor query asks for min(slots, catalog size); and ten
\* recommendations over shares 0.7 and 0.3 give 7 and 3 slots.
C8_SlotAllocation ==
    alloc.pc = "done" =>
        LET labels == alloc.labels
            plan == alloc.plan
            members(c) == {i \in DOMAIN labels : labels[i] = c}
            slot(c) == {plan[k].slots : k \in {x \in DOMAIN plan :
                                                  plan[x].cluster = c}}
        IN  /\ \A k \in DOMAIN plan :
                   LET e == plan[k]
                       exact2 == 2 * alloc.total * Cardinality(members(e.cluster))
                       n == Len(labels)
                   IN  /\ e.cluster # -1
                       /\ members(e.cluster) # {}
                       /\ e.slots >= 1
                       /\ \/ Abs(2 * n * e.slots - exact2) <= n
                          \/ e.slots = 1 /\ exact2 < n
                       /\ e.n_neighbors = Min(e.slots, alloc.catalog_size)
                       /\ \A j \in DOMAIN plan :
                              plan[j].cluster = e.cluster => j = k
            /\ \A c \in Range(labels) \ {-1} :
                   \E k \in DOMAIN plan : plan[k].cluster = c
            /\ (/\ alloc.total = 10
                /\ Cardinality(members(0)) = 7
                /\ Cardinality(members(1)) = 3
                /\ Len(labels) = 10)
                   => slot(0) = {7} /\ slot(1) = {3}

\* C8 witness: the allocation of Example B has been computed
C8_Witness ==
    /\ alloc.pc = "done"
    /\ alloc.total = 10
    /\ alloc.labels = AllocLabels(7, 3, 0)
    /\ Len(alloc.plan) = 2
    /\ alloc.plan[1].slots + alloc.plan[2].slots = 10

\* where in the list xs the candidate appended ord-th stands
PositionOf(xs, ord) == CHOOSE k \in DOMAIN xs : xs[k].ord = ord

C10_PreviousInteractions ==
    \A k \in DOMAIN user_profiles :
        LET p == user_profiles[k]
            u == p.user_id
            good == {content_df[i].id : i \in Range(p.content)}
            only3 == RatedIn(u, {3}) \ RatedIn(u, {1, 2, 4, 5})
        IN  /\ p.previous_interactions
                   = RatedIn(u, {4, 5}) \cup RatedIn(u, {1, 2})
            /\ good = RatedIn(u, {4, 5})
                          \cap {content_df[i].id : i \in DOMAIN content_df}
            /\ only3 \cap p.previous_interactions = {}
            /\ only3 \cap good = {}

\* C10 witness: an item its user rated only 3 is among that user's rows,
\* next to items the user rated 4 and 2 that are not
C10_Witness ==
    /\ pc = "DONE"
    /\ \E u \in LogUsers :
           /\ RatedIn(u, {4}) # {} /\ RatedIn(u, {2}) # {}
           /\ \E r \in Range(RowsOf(recommendations_df, u)) :
                  r.content_id \in RatedIn(u, {3}) \ RatedIn(u, {1, 2, 4, 5})

\* the phase of the invocation under way: INIT until every profile is built
Phase ==
    CASE pc \in {"INIT", "PROFILES"} -> 0
      [] pc = "PROFILES_BUILT" -> 1
      [] pc = "RECOMMENDATIONS_GENERATED" -> 2
      [] pc = "DONE" -> 3

\* the rows the rankings of the profiled users make, in profile order
RECURSIVE RankedRows(_)
RankedRows(k) ==
    IF k = 0 THEN <<>>
    ELSE RankedRows(k - 1)
             \o trace[user_profiles[k].user_id].ranked_recommendations

\* C11: within one invocation the phase never goes back and never skips; it
\* starts by stacking the catalog matrix; a profile is built only before any
\* candidate of this invocation exists; a user is ranked only once every
\* user of the log has its profile; the table is built and returned only
\* once no profiled user is left to rank, and holds every profiled user's
\* ranking.
C11_StrictlyForward ==
    [][/\ run' = run =>
              /\ Phase' \in {Phase, Phase + 1}
              /\ all_vectors' = all_vectors
       /\ run' # run =>
              /\ run' = run + 1
              /\ pc \in {"INIT", "DONE"}
              /\ pc' = "PROFILES"
              /\ all_vectors' = [i \in DOMAIN content_df |-> content_df[i].vec]
              /\ user_profiles' = user_profiles
              /\ all_recommendations' = all_recommendations
       /\ user_profiles' # user_profiles =>
              /\ Phase = 0 /\ Phase' = 0
              /\ all_vectors = [i \in DOMAIN content_df |-> content_df[i].vec]
              /\ trace' = trace
              /\ all_recommendations' = all_recommendations
       /\ (trace' # trace \/ Len(all_recommendations') > Len(all_recommendations)) =>
              /\ Phase = 1 /\ Phase' = 1
              /\ user_ids = <<>>
              /\ DOMAIN processed = LogUsers
              /\ \A u \in LogUsers : processed[u] = 1
              /\ user_profiles' = user_profiles
       /\ recommendations_df' # recommendations_df =>
              /\ Phase = 1 /\ Phase' = 2
              /\ cosine_top_indices = <<>>
       /\ returned' # returned =>
              /\ Phase = 2 /\ Phase' = 3
              /\ cosine_top_indices = <<>>
              /\ returned' = Append(returned, recommendations_df)
              /\ recommendations_df
                     = recommendations_table(RankedRows(Len(user_profiles)))
      ]_vars

\* C11 witness: a first invocation is done over three users with rows
C11_Witness ==
    /\ pc = "DONE"
    /\ run = 1
    /\ Cardinality(LogUsers) = 3
    /\ Len(user_profiles) = 3
    /\ TableUsers(returned[1]) = LogUsers

\* the content ids the neighbor query of the k-th queried cluster of user u
\* returns, nearest first
ClusterQuery(u, k) ==
    LET profile == dict_get(user_profiles, u)
        plan == trace[u].plan
        pos == SelectIdx([j \in DOMAIN profile.content |-> j],
                         {j \in DOMAIN profile.content :
                             profile.clusters[j] = plan[k].cluster})
        cluster_vector == VecSum([m \in 1..Len(pos) |->
                                     content_df[profile.content[pos[m]]].vec])
        neighbors == kneighbors(all_vectors, cluster_vector,
                                plan[k].n_neighbors, ties)
    IN  [j \in DOMAIN neighbors |-> content_df[neighbors[j].idx].id]

\* the content ids the neighbor queries of user u's clusters return
ClusterNeighborIds(u) ==
    UNION {Range(ClusterQuery(u, k)) : k \in DOMAIN trace[u].plan}

\* every item user u can reach, by its clusters or by its pool, is one it
\* has interacted with
AllReachableSeen(u) ==
    LET prev == dict_get(user_profiles, u).previous_interactions
    IN  /\ {content_df[i].id : i \in Range(trace[u].top_indices)}
               \subseteq prev
        /\ ClusterNeighborIds(u) \subseteq prev

\* the log without the rows of user u
LogWithout(u) == SelectRows(interactions_df, LogUsers \ {u})

\* the rows user v is given when user u is absent from the log
RowsWithout(u, v) ==
    LET alone == build_profile(v, LogWithout(u),
                               batch_content_of(LogWithout(u)))
    IN  recommendations_table(
            recommend_user(alone.profile, alone.scores,
                           top_indices_of(alone.scores)
            ).ranked_recommendations)

\* C12: a user all of whose reachable items (cluster neighbors and pool) are
\* previous interactions does not stop the run: the user is ranked with an
\* empty candidate list, the finished table has no row of that user, and
\* every other user has the rows the log without that user gives it.
C12_NothingLeftToRecommend ==
    /\ \A u \in DOMAIN trace :
           AllReachableSeen(u) =>
               /\ trace[u].user_recommendations = <<>>
               /\ trace[u].ranked_recommendations = <<>>
    /\ pc = "DONE" =>
           \A u \in LogUsers :
               AllReachableSeen(u) =>
                   /\ RowsOf(recommendations_df, u) = <<>>
                   /\ returned[Len(returned)] = recommendations_df
                   /\ \A v \in LogUsers \ {u} :
                          RowsOf(recommendations_df, v) = RowsWithout(u, v)

\* C12 witness: a run is done in which a user on the cluster path has seen
\* everything it can reach, in one batch with a user who is given rows
C12_Witness ==
    /\ pc = "DONE"
    /\ batch_size >= Cardinality(LogUsers)
    /\ \E u \in LogUsers, v \in LogUsers :
           /\ u # v
           /\ AllReachableSeen(u)
           /\ ~trace[u].few
           /\ ClusterNeighborIds(u) # {}
           /\ RowsOf(recommendations_df, u) = <<>>
           /\ RowsOf(recommendations_df, v) # <<>>

\* the users whose candidates come from cluster queries
ClusterUsers == {u \in DOMAIN trace : ~trace[u].few}

\* what the k-th cluster of user u has put in the candidate list, in order
AppendedBy(u, k) ==
    SelectSeq(trace[u].from_path,
              LAMBDA c : c.via = "cluster" /\ c.cluster = trace[u].plan[k].cluster)

\* the neighbors of the k-th cluster of user u that pass the only test of
\* the loop, in query order
UnseenOf(u, k) ==
    SelectSeq(ClusterQuery(u, k),
              LAMBDA c : c \notin dict_get(user_profiles, u).previous_interactions)

\* the content ids returned by the queries of two different clusters of u
SharedNeighbors(u) ==
    {c \in ClusterNeighborIds(u) :
        \E k, l \in DOMAIN trace[u].plan :
            /\ k # l
            /\ c \in Range(ClusterQuery(u, k))
            /\ c \in Range(ClusterQuery(u, l))}

\* C13: on the cluster path each cluster appends the neighbors of its query
\* that are no previous interactions, in query order and whether or not the
\* candidate list holds them already, up to the neighbor whose append fills
\* the list to the cap.
C13_FilteredOnlyBySeen ==
    \A u \in ClusterUsers :
        \A k \in DOMAIN trace[u].plan :
            LET got == AppendedBy(u, k)
                unseen == UnseenOf(u, k)
            IN  /\ Len(got) <= Len(unseen)
                /\ \A j \in DOMAIN got : got[j].content_id = unseen[j]
                /\ Len(got) < Len(unseen) =>
                       /\ got # <<>>
                       /\ got[Len(got)].ord >= total_recommendations

\* C13 witness: a user's output holds one content id at two ranks, put in
\* the candidate list by two different clusters
C13_Witness ==
    \E u \in ClusterUsers :
        \E a, b \in DOMAIN trace[u].ordered :
            /\ a < b
            /\ trace[u].ordered[a].content_id = trace[u].ordered[b].content_id
            /\ trace[u].ordered[a].content_id \in SharedNeighbors(u)
            /\ trace[u].ordered[a].via = "cluster"
            /\ trace[u].ordered[b].via = "cluster"
            /\ trace[u].ordered[a].cluster # trace[u].ordered[b].cluster
            /\ trace[u].ranked_recommendations[a].recommendation_rank = a
            /\ trace[u].ranked_recommendations[b].recommendation_rank = b
            /\ RowsOf(recommendations_df, u) # <<>>

=============================================================================
